---- MODULE Spec2Model ----
(***************************************************************************)
(* Model of the CoreDNS manager of tfgateway (src/dns/coredns.go).         *)
(*                                                                         *)
(* The redis store is three tables: the hash "zone" (zone -> ZoneOwner),   *)
(* the hash "managed_domains" (subdomain -> claiming user) and every other *)
(* key, which is a hash of record sets (zone key -> name -> records).      *)
(* Strings the code takes apart (domains, zones, names, keys) are          *)
(* sequences of characters; identities are atoms.                          *)
(***************************************************************************)
EXTENDS Integers, Sequences, FiniteSets, TLC

\* zoneTab, managed, hashes: the store; last: the last completed call;
\* procs: the calls in progress when calls are taken one round trip at a
\* time; probe: a domain and what splitDomain made of it
VARIABLES zoneTab, managed, hashes, last, procs, probe

vars == <<zoneTab, managed, hashes, last, procs, probe>>

-----------------------------------------------------------------------------
(* Bounds and input sets *)

\* longest address list handed to AddSubdomain / RemoveSubdomain
MaxIPs == 2

\* Mgr.identity, the gateway's own identity
identity == "gw"

\* callers
Users == {"gw", "u1", "u2"}

\* the identity argument of AddDomainDelagate (only written to the TXT record)
Identities == {"id"}

Dot == "."

ZoneZC == <<"z", ".", "c">>
SubD == <<"d", ".", "z", ".", "c">>

\* domains that pass validateDomain
ZoneDomains == {ZoneZC}
SubDomains == {SubD}

\* "", "z", "z." and "z..c", which it rejects
BadDomains == {<<>>, <<"z">>, <<"z", ".">>, <<"z", ".", ".", "c">>}

InputDomains == ZoneDomains \cup SubDomains \cup BadDomains


IP4a == [v |-> 4, s |-> "10.1.1.10"]
IP6a == [v |-> 6, s |-> "2a02::764b"]
IPs == {IP4a, IP6a}

RECURSIVE SeqsUpTo(_, _)
SeqsUpTo(S, n) ==
  IF n = 0 THEN {<<>>}
  ELSE LET shorter == SeqsUpTo(S, n - 1)
       IN shorter \cup {Append(q, x) : q \in shorter, x \in S}

\* the address lists of at most MaxIPs addresses, IPv4 addresses first:
\* repeated addresses and lists of both versions are among them
IPLists ==
  {q \in SeqsUpTo(IPs, MaxIPs) : \A i \in 1..(Len(q) - 1) : q[i].v <= q[i + 1].v}

-----------------------------------------------------------------------------
(* Strings *)

\* strings.Split(s, sep) for a one-character separator
RECURSIVE Split(_, _)
Split(s, sep) ==
  IF \A i \in 1..Len(s) : s[i] # sep THEN <<s>>
  ELSE LET i == CHOOSE k \in 1..Len(s) :
                  s[k] = sep /\ \A j \in 1..(k - 1) : s[j] # sep
       IN <<SubSeq(s, 1, i - 1)>> \o Split(SubSeq(s, i + 1, Len(s)), sep)

\* strings.Join(ss, sep)
RECURSIVE Join(_, _)
Join(ss, sep) ==
  IF Len(ss) = 0 THEN <<>>
  ELSE IF Len(ss) = 1 THEN ss[1]
  ELSE ss[1] \o <<sep>> \o Join(Tail(ss), sep)

\* strings.Count(s, ".")
Count(s, c) == Cardinality({i \in 1..Len(s) : s[i] = c})

\* strings.Contains(s, "..")
ContainsDotDot(s) == \E i \in 1..(Len(s) - 1) : s[i] = Dot /\ s[i + 1] = Dot

\* strings.TrimSuffix(s, ".")
TrimSuffix(s, c) ==
  IF Len(s) > 0 /\ s[Len(s)] = c THEN SubSeq(s, 1, Len(s) - 1) ELSE s

\* govalidator.IsDNSName: non-empty labels separated by dots, one trailing
\* dot allowed
IsDNSName(s) ==
  /\ s # <<>>
  /\ LET t == TrimSuffix(s, Dot)
         ls == Split(t, Dot)
     IN \A i \in 1..Len(ls) : ls[i] # <<>>

\* the check of the last character left out
validateDomain_NoTrailingDot(domain) ==
  /\ IsDNSName(domain)
  /\ Len(domain) # 0
  /\ ~(Count(domain, Dot) < 1)
  /\ ~ContainsDotDot(domain)

validateDomain(domain) ==
  /\ IsDNSName(domain)
  /\ Len(domain) # 0
  /\ ~(Count(domain, Dot) < 1)
  /\ domain[Len(domain)] # Dot
  /\ ~ContainsDotDot(domain)

\* a name taken from two labels on
splitDomain_FromTwoLabels(d) ==
  LET ss == Split(d, Dot)
  IN IF Len(ss) < 2 THEN <<<<>>, d>>
     ELSE <<ss[1], Join(Tail(ss), Dot)>>

\* <<name, zone>>
splitDomain(d) ==
  LET ss == Split(d, Dot)
  IN IF Len(ss) < 3 THEN <<<<>>, d>>
     ELSE <<ss[1], Join(Tail(ss), Dot)>>

\* validateDomain and splitDomain of the input domains, computed once
Validated == [d \in InputDomains |-> validateDomain(d)]
Splitted == [d \in InputDomains |-> splitDomain(d)]

-----------------------------------------------------------------------------
(* Records *)

\* the record-type tags, in the order encoding/json writes map keys
RecordTypes == <<"A", "AAAA", "TXT">>

RecordA(ip, ttl) == [type |-> "A", IP4 |-> ip, TTL |-> ttl]
RecordAAAA(ip, ttl) == [type |-> "AAAA", IP6 |-> ip, TTL |-> ttl]
RecordTXT(text, ttl) == [type |-> "TXT", Text |-> text, TTL |-> ttl]

SubdomainTTL == 3600
OwnerTTL == 600

recordFromIP(ip) ==
  IF ip.v = 4 THEN RecordA(ip.s, SubdomainTTL) ELSE RecordAAAA(ip.s, SubdomainTTL)

Put(f, k, v) == [x \in (DOMAIN f) \cup {k} |-> IF x = k THEN v ELSE f[x]]
Drop(f, k) == [x \in (DOMAIN f) \ {k} |-> f[x]]

\* records{}: the records mapping (type -> sequence of records) with no entry
NoRecords == [t \in {} |-> <<>>]

InSeq(q, x) == \E i \in 1..Len(q) : q[i] = x

\* Zone.Add: append, de-duplicating by equality
ZoneAdd(recs, r) ==
  IF r.type \in DOMAIN recs
  THEN IF InSeq(recs[r.type], r) THEN recs
       ELSE [recs EXCEPT ![r.type] = Append(@, r)]
  ELSE Put(recs, r.type, <<r>>)

RECURSIVE Without(_, _)
Without(q, x) ==
  IF q = <<>> THEN <<>>
  ELSE IF Head(q) = x THEN Without(Tail(q), x)
  ELSE <<Head(q)>> \o Without(Tail(q), x)

\* Zone.Remove: delete the matching entries
ZoneRemove(recs, r) ==
  IF r.type \in DOMAIN recs
  THEN [recs EXCEPT ![r.type] = Without(@, r)]
  ELSE recs

\* records.IsEmpty: every type's sequence is empty
IsEmpty(recs) == \A t \in DOMAIN recs : recs[t] = <<>>

RECURSIVE AddAll(_, _)
AddAll(recs, ips) ==
  IF ips = <<>> THEN recs
  ELSE AddAll(ZoneAdd(recs, recordFromIP(Head(ips))), Tail(ips))

RECURSIVE RemoveAll(_, _)
RemoveAll(recs, ips) ==
  IF ips = <<>> THEN recs
  ELSE RemoveAll(ZoneRemove(recs, recordFromIP(Head(ips))), Tail(ips))

\* json.Marshal(zr.Records): the (tag, records) pairs of the types present,
\* in key order; "{}" is the empty sequence
RECURSIVE MarshalFrom(_, _)
MarshalFrom(recs, i) ==
  IF i > Len(RecordTypes) THEN <<>>
  ELSE (IF RecordTypes[i] \in DOMAIN recs
        THEN <<[tag |-> RecordTypes[i], rs |-> recs[RecordTypes[i]]]>>
        ELSE <<>>) \o MarshalFrom(recs, i + 1)

Marshal(recs) == MarshalFrom(recs, 1)

\* json.Unmarshal(data, &zr.Records)
Unmarshal(data) ==
  [t \in {data[i].tag : i \in 1..Len(data)} |->
     (CHOOSE e \in {data[i] : i \in 1..Len(data)} : e.tag = t).rs]

-----------------------------------------------------------------------------
(* The store: s = [zone, managed, hashes] *)

Store == [zone |-> zoneTab, managed |-> managed, hashes |-> hashes]

NoTable == [k \in {} |-> <<>>]

\* ZoneOwner{Owner: ""}
NoZoneOwner == [Owner |-> ""]

\* HSET key field value on the record hashes
HSet(h, key, field, value) ==
  Put(h, key, Put(IF key \in DOMAIN h THEN h[key] ELSE NoTable, field, value))

\* HDEL key field on the record hashes: a hash left without fields is gone
HDel(h, key, field) ==
  IF key \notin DOMAIN h THEN h
  ELSE IF DOMAIN h[key] \subseteq {field} THEN Drop(h, key)
  ELSE [h EXCEPT ![key] = Drop(@, field)]

\* the key of a zone's hash: the zone with a trailing dot
ZoneKey(zone) == IF zone[Len(zone)] # Dot THEN zone \o <<Dot>> ELSE zone

getZoneOwner(s, zone) ==
  LET z == TrimSuffix(zone, Dot)
  IN IF z \in DOMAIN s.zone THEN s.zone[z] ELSE NoZoneOwner

\* HSETNX in place of HSET: an owner already stored is kept
setZoneOwner_IfAbsent(s, zone, owner) ==
  IF zone \in DOMAIN s.zone THEN s ELSE [s EXCEPT !.zone = Put(@, zone, owner)]

setZoneOwner(s, zone, owner) == [s EXCEPT !.zone = Put(@, zone, owner)]

getZoneRecords(s, zone, name) ==
  LET key == ZoneKey(zone)
  IN IF key \in DOMAIN s.hashes /\ name \in DOMAIN s.hashes[key]
     THEN Unmarshal(s.hashes[key][name])
     ELSE NoRecords

\* the hash key without the trailing dot
setZoneRecords_NoDot(s, zone, name, recs) ==
  [s EXCEPT !.hashes = HSet(@, zone, name, Marshal(recs))]

setZoneRecords(s, zone, name, recs) ==
  [s EXCEPT !.hashes = HSet(@, ZoneKey(zone), name, Marshal(recs))]

deleteZoneRecords(s, zone, name) ==
  [s EXCEPT !.hashes = HDel(@, ZoneKey(zone), name)]

\* HSETNX in place of HSET: a claim already stored is kept
setSubdomainOwner_IfAbsent(s, domain, user) ==
  IF domain \in DOMAIN s.managed THEN s ELSE [s EXCEPT !.managed = Put(@, domain, user)]

setSubdomainOwner(s, domain, user) == [s EXCEPT !.managed = Put(@, domain, user)]

getSubdomainOwner(s, domain) ==
  IF domain \in DOMAIN s.managed THEN s.managed[domain] ELSE ""

\* HDEL of the zone's field instead of the domain's
deleteSubdomainOwner_ZoneField(s, domain) ==
  [s EXCEPT !.managed = Drop(@, Splitted[domain][2])]

deleteSubdomainOwner(s, domain) == [s EXCEPT !.managed = Drop(@, domain)]

-----------------------------------------------------------------------------
(* The manager's operations.  Each takes the store s and the set `fail` of *)
(* store round trips that fail during the call, and yields the store it    *)
(* leaves, the error it returns, the round trip that failed and the zone   *)
(* its error message names.                                                *)

NoZone == <<>>

Ret(s, err, failed, zone) ==
  [s |-> s, err |-> err, failed |-> failed, zone |-> zone, rollback |-> "none"]

\* the zone-owner check left out
NotManaged_Skipped(owner) == FALSE

\* owner.Owner == ""
NotManaged(owner) == owner.Owner = ""

\* every zone that has an owner taken for a managed one
IsManaged_AnyOwner(owner) == owner.Owner # ""

\* owner.Owner == c.identity
IsManaged(owner) == owner.Owner = identity

\* the holder of the claim let through
SubdomainUsed_ByOthers(claimant, user) == claimant # "" /\ claimant # user

\* the claim found on a managed zone blocks the call
SubdomainUsed(claimant, user) == claimant # ""

\* the comparison turned around
NotDelegate_Inverted(owner, user) == owner.Owner = user

\* owner.Owner != user on a delegated zone
NotDelegate(owner, user) == owner.Owner # user

\* the deferred function: err is set, so the reservation is deleted; a failure
\* of the delete is logged and the first error is returned
Rollback(s, domain, fail, failed) ==
  IF "deleteSubdomainOwner" \in fail
  THEN [Ret(s, "ErrStore", failed, NoZone) EXCEPT !.rollback = "failed"]
  ELSE [Ret(deleteSubdomainOwner(s, domain), "ErrStore", failed, NoZone)
          EXCEPT !.rollback = "done"]

AddSubdomain(s, user, domain, ips, fail) ==
  IF ~Validated[domain] THEN Ret(s, "ErrValidation", "none", NoZone)
  ELSE
  LET name == Splitted[domain][1]
      zone == Splitted[domain][2]
      owner == getZoneOwner(s, zone)
      reserved == setSubdomainOwner(s, domain, user)
      zr == AddAll(getZoneRecords(reserved, zone, name), ips)
  IN
  IF "getZoneOwner" \in fail THEN Ret(s, "ErrStore", "getZoneOwner", zone)
  ELSE IF NotManaged(owner) THEN Ret(s, "ErrNotManaged", "none", zone)
  ELSE IF IsManaged(owner) /\ "getSubdomainOwner" \in fail
    THEN Ret(s, "ErrStore", "getSubdomainOwner", NoZone)
  ELSE IF IsManaged(owner) /\ SubdomainUsed(getSubdomainOwner(s, domain), user)
    THEN Ret(s, "ErrSubdomainUsed", "none", zone)
  ELSE IF ~IsManaged(owner) /\ NotDelegate(owner, user)
    THEN Ret(s, "ErrAuth", "none", zone)
  ELSE IF "setSubdomainOwner" \in fail
    THEN Ret(s, "ErrStore", "setSubdomainOwner", NoZone)
  ELSE IF "getZoneRecords" \in fail
    THEN Rollback(reserved, domain, fail, "getZoneRecords")
  ELSE IF "setZoneRecords" \in fail
    THEN Rollback(reserved, domain, fail, "setZoneRecords")
  ELSE Ret(setZoneRecords(reserved, zone, name, zr), "nil", "none", NoZone)

\* ownerName != "" && ownerName != user
NotClaimant(ownerName, user) == ownerName # "" /\ ownerName # user

RemoveSubdomain(s, user, domain, ips, fail) ==
  IF ~Validated[domain] THEN Ret(s, "ErrValidation", "none", NoZone)
  ELSE
  LET name == Splitted[domain][1]
      zone == Splitted[domain][2]
      owner == getZoneOwner(s, zone)
      stored == getZoneRecords(s, zone, name)
      zr == RemoveAll(stored, ips)
      deleted == deleteZoneRecords(s, zone, name)
  IN
  IF "getZoneOwner" \in fail THEN Ret(s, "ErrStore", "getZoneOwner", zone)
  ELSE IF NotManaged(owner) THEN
    IF "deleteSubdomainOwner" \in fail
    THEN Ret(s, "ErrStore", "deleteSubdomainOwner", NoZone)
    ELSE Ret(deleteSubdomainOwner(s, domain), "nil", "none", NoZone)
  ELSE IF "getSubdomainOwner" \in fail
    THEN Ret(s, "ErrStore", "getSubdomainOwner", NoZone)
  ELSE IF NotClaimant(getSubdomainOwner(s, domain), user)
    THEN Ret(s, "ErrAuth", "none", zone)
  ELSE IF "getZoneRecords" \in fail
    THEN Ret(s, "ErrStore", "getZoneRecords", NoZone)
  ELSE IF IsEmpty(stored) THEN Ret(s, "nil", "none", NoZone)
  ELSE IF IsEmpty(zr) THEN
    IF "deleteZoneRecords" \in fail
    THEN Ret(s, "ErrStore", "deleteZoneRecords", NoZone)
    ELSE IF "deleteSubdomainOwner" \in fail
    THEN Ret(deleted, "ErrStore", "deleteSubdomainOwner", NoZone)
    ELSE Ret(deleteSubdomainOwner(deleted, domain), "nil", "none", NoZone)
  ELSE IF "setZoneRecords" \in fail
    THEN Ret(s, "ErrStore", "setZoneRecords", NoZone)
  ELSE Ret(setZoneRecords(s, zone, name, zr), "nil", "none", NoZone)

OwnerName == <<"__owner__">>

\* the JSON object {"identity": ..., "owner": ...}
OwnerText(id, owner) == [identity |-> id, owner |-> owner]

\* the record added to the entry already stored
setZoneOwnerTXTRecord_Append(s, domain, id, owner) ==
  setZoneRecords(s, domain, OwnerName,
                 ZoneAdd(getZoneRecords(s, domain, OwnerName),
                         RecordTXT(OwnerText(id, owner), OwnerTTL)))

setZoneOwnerTXTRecord(s, domain, id, owner) ==
  setZoneRecords(s, domain, OwnerName,
                 ZoneAdd(NoRecords, RecordTXT(OwnerText(id, owner), OwnerTTL)))

\* the comparison with the caller turned around
DelegateDenied_Inverted(owner, user) == owner.Owner # "" /\ owner.Owner = user

\* owner.Owner != "" && owner.Owner != user
DelegateDenied(owner, user) == owner.Owner # "" /\ owner.Owner # user

AddDomainDelagate(s, id, user, domain, fail) ==
  IF ~Validated[domain] THEN Ret(s, "ErrValidation", "none", NoZone)
  ELSE
  LET owner == getZoneOwner(s, domain)
      owned == setZoneOwner(s, domain, [owner EXCEPT !.Owner = user])
  IN
  IF "getZoneOwner" \in fail THEN Ret(s, "ErrStore", "getZoneOwner", NoZone)
  ELSE IF DelegateDenied(owner, user) THEN Ret(s, "ErrAuth", "none", domain)
  ELSE IF "setZoneOwner" \in fail THEN Ret(s, "ErrStore", "setZoneOwner", NoZone)
  ELSE IF "setZoneRecords" \in fail THEN Ret(owned, "ErrStore", "setZoneRecords", NoZone)
  ELSE Ret(setZoneOwnerTXTRecord(owned, domain, id, user), "nil", "none", NoZone)

\* owner.Owner != "" && owner.Owner != user
RemoveDenied(owner, user) == owner.Owner # "" /\ owner.Owner # user

\* DEL of the claim table along with the zone
delDomain_ClaimTable(s, domain) ==
  [s EXCEPT !.hashes = Drop(@, domain), !.managed = NoTable]

\* DEL domain
delDomain(s, domain) == [s EXCEPT !.hashes = Drop(@, domain)]

\* the field named with the trailing dot of the zone's hash key
hdelZone_DottedField(s, domain) == [s EXCEPT !.zone = Drop(@, ZoneKey(domain))]

\* HDEL zone domain
hdelZone(s, domain) == [s EXCEPT !.zone = Drop(@, domain)]

RemoveDomainDelagate(s, user, domain, fail) ==
  IF ~Validated[domain] THEN Ret(s, "ErrValidation", "none", NoZone)
  ELSE
  LET owner == getZoneOwner(s, domain)
  IN
  IF "getZoneOwner" \in fail THEN Ret(s, "ErrStore", "getZoneOwner", NoZone)
  ELSE IF RemoveDenied(owner, user) THEN Ret(s, "ErrAuth", "none", domain)
  ELSE IF "delDomain" \in fail THEN Ret(s, "ErrStore", "delDomain", NoZone)
  ELSE IF "hdelZone" \in fail THEN Ret(delDomain(s, domain), "ErrStore", "hdelZone", NoZone)
  ELSE Ret(hdelZone(delDomain(s, domain), domain), "nil", "none", NoZone)

\* KEYS "*.": the keys that end in a dot
listKeys(s) == {k \in DOMAIN s.hashes : Len(k) > 0 /\ k[Len(k)] = Dot}

\* TYPE zone: every key of the record store is a hash
typeOf(s, key) == "hash"

\* the zones listCorednsZones returns
listCorednsZones(s) == {z \in listKeys(s) : typeOf(s, z) = "hash"}

\* only the empty string counts as empty
Blank_EmptyStringOnly(value) == Len(value) = 0 /\ value # Marshal(NoRecords)

\* len(value) == 0 || value == "{}"
Blank(value) == Len(value) = 0 \/ value = Marshal(NoRecords)

\* the store round trips of the sweep are named <<command, key, field>>
Step(cmd, key, field) == <<cmd, key, field>>

\* cleanUp(zone) deletes this field: HKEYS of the zone and HGET of the field
\* succeed, the value is empty and the HDEL succeeds
Swept(s, zone, field, fail) ==
  /\ Step("HKEYS", zone, <<>>) \notin fail
  /\ Step("HGET", zone, field) \notin fail
  /\ Blank(s.hashes[zone][field])
  /\ Step("HDEL", zone, field) \notin fail

\* the record store after cleanUp has run on every zone of `zones`
cleanUp(s, zones, fail) ==
  LET kept(z) == {f \in DOMAIN s.hashes[z] : ~(z \in zones /\ Swept(s, z, f, fail))}
      keys == {z \in DOMAIN s.hashes : kept(z) # {}}
  IN [s EXCEPT !.hashes = [z \in keys |-> [f \in kept(z) |-> s.hashes[z][f]]]]

\* the first round trip of the sweep that fails, "none" if none does
SweepFailure(s, zones, fail) ==
  IF \E z \in zones : Step("HKEYS", z, <<>>) \in fail THEN "HKEYS"
  ELSE IF \E z \in zones : \E f \in DOMAIN s.hashes[z] :
            Step("HGET", z, f) \in fail THEN "HGET"
  ELSE IF \E z \in zones : \E f \in DOMAIN s.hashes[z] :
            Blank(s.hashes[z][f]) /\ Step("HDEL", z, f) \in fail THEN "HDEL"
  ELSE "none"

Cleanup(s, fail) ==
  IF Step("KEYS", <<>>, <<>>) \in fail THEN Ret(s, "ErrStore", "KEYS", NoZone)
  ELSE IF \E z \in listKeys(s) : Step("TYPE", z, <<>>) \in fail
    THEN Ret(s, "ErrStore", "TYPE", NoZone)
  ELSE Ret(cleanUp(s, listCorednsZones(s), fail), "nil",
           SweepFailure(s, listCorednsZones(s), fail), NoZone)

-----------------------------------------------------------------------------
(* The state machine: one completed call per step *)

\* the store round trips that may fail during one call: none, one, or one
\* together with the compensating delete
AddSubdomainFails ==
  {{}} \cup {{f} : f \in {"getZoneOwner", "getSubdomainOwner", "setSubdomainOwner",
                          "getZoneRecords", "setZoneRecords"}}
       \cup {{f, "deleteSubdomainOwner"} : f \in {"getZoneRecords", "setZoneRecords"}}

RemoveSubdomainFails ==
  {{}} \cup {{f} : f \in {"getZoneOwner", "getSubdomainOwner", "getZoneRecords",
                          "deleteZoneRecords", "deleteSubdomainOwner", "setZoneRecords"}}

AddDomainDelagateFails ==
  {{}} \cup {{f} : f \in {"getZoneOwner", "setZoneOwner", "setZoneRecords"}}

RemoveDomainDelagateFails ==
  {{}} \cup {{f} : f \in {"getZoneOwner", "delDomain", "hdelZone"}}

\* one round trip of the sweep fails, on the one zone hash or on one of its
\* fields
CleanupFails ==
  {{}} \cup {{Step("KEYS", <<>>, <<>>)}}
       \cup {{Step(c, ZoneKey(z), <<>>)} : c \in {"TYPE", "HKEYS"}, z \in ZoneDomains}
       \cup {{Step(c, ZoneKey(z), f)} :
               c \in {"HGET", "HDEL"}, z \in ZoneDomains,
               f \in {Splitted[d][1] : d \in SubDomains} \cup {<<"__owner__">>}}

\* the domains handed to the delegation calls and to the subdomain calls
DelegateInputs == ZoneDomains
SubdomainInputs == SubDomains

\* the last completed call: its caller and domain, the error it returned, the
\* round trip that failed in it, what became of the rollback and the zone its
\* error message names
NoCall ==
  [op |-> "none", user |-> "", domain |-> <<>>,
   err |-> "nil", failed |-> "none", zone |-> NoZone, rollback |-> "none"]

Call(op, user, domain, r) ==
  [op |-> op, user |-> user, domain |-> domain,
   err |-> r.err, failed |-> r.failed, zone |-> r.zone, rollback |-> r.rollback]

\* no call in progress, no domain split
NoProcs == <<>>
NoProbe == [labels |-> <<>>, domain |-> <<>>, done |-> FALSE, name |-> <<>>, zone |-> <<>>]

Commit(r) ==
  /\ zoneTab' = r.s.zone
  /\ managed' = r.s.managed
  /\ hashes' = r.s.hashes
  /\ UNCHANGED <<procs, probe>>

Init ==
  /\ zoneTab = NoTable
  /\ managed = NoTable
  /\ hashes = NoTable
  /\ last = NoCall
  /\ procs = NoProcs
  /\ probe = NoProbe

CallAddSubdomain ==
  \E user \in Users, domain \in SubdomainInputs, ips \in IPLists, fail \in AddSubdomainFails :
    LET r == AddSubdomain(Store, user, domain, ips, fail)
    IN /\ Commit(r)
       /\ last' = Call("AddSubdomain", user, domain, r)

CallRemoveSubdomain ==
  \E user \in Users, domain \in SubdomainInputs, ips \in IPLists, fail \in RemoveSubdomainFails :
    LET r == RemoveSubdomain(Store, user, domain, ips, fail)
    IN /\ Commit(r)
       /\ last' = Call("RemoveSubdomain", user, domain, r)

CallAddDomainDelagate ==
  \E id \in Identities, user \in Users, domain \in DelegateInputs,
     fail \in AddDomainDelagateFails :
    LET r == AddDomainDelagate(Store, id, user, domain, fail)
    IN /\ Commit(r)
       /\ last' = Call("AddDomainDelagate", user, domain, r)

CallRemoveDomainDelagate ==
  \E user \in Users, domain \in DelegateInputs, fail \in RemoveDomainDelagateFails :
    LET r == RemoveDomainDelagate(Store, user, domain, fail)
    IN /\ Commit(r)
       /\ last' = Call("RemoveDomainDelagate", user, domain, r)

CallCleanup ==
  \E fail \in CleanupFails :
    LET r == Cleanup(Store, fail)
    IN /\ Commit(r)
       /\ last' = Call("Cleanup", "", <<>>, r)

Next ==
  \/ CallAddSubdomain
  \/ CallRemoveSubdomain
  \/ CallAddDomainDelagate
  \/ CallRemoveDomainDelagate
  \/ CallCleanup

Spec == Init /\ [][Next]_vars

-----------------------------------------------------------------------------
(* What the properties read *)

StoreNext == [zone |-> zoneTab', managed |-> managed', hashes |-> hashes']

StoreUnchanged == UNCHANGED <<zoneTab, managed, hashes>>

\* the zone and the name of the subdomain the subdomain calls are given
ZoneOf(domain) == Splitted[domain][2]
NameOf(domain) == Splitted[domain][1]

\* the names an entry may be stored under in a zone's hash
Names == {NameOf(d) : d \in SubDomains} \cup {OwnerName}

OwnerOf(s, zone) == getZoneOwner(s, zone).Owner

HasClaim(s, domain) == domain \in DOMAIN s.managed

HasEntry(s, zone, name) ==
  ZoneKey(zone) \in DOMAIN s.hashes /\ name \in DOMAIN s.hashes[ZoneKey(zone)]

\* a zone delegated to a tenant, not to the gateway itself
Delegated(s, zone) == OwnerOf(s, zone) \notin {"", identity}

Managed(s, zone) == OwnerOf(s, zone) = identity

-----------------------------------------------------------------------------
(* C1 *)

C1_Step ==
  LET owner == OwnerOf(Store, last'.domain)
  IN (last'.op = "AddDomainDelagate" /\ last'.failed = "none" /\ owner # "")
     => IF last'.user # owner
        THEN last'.err = "ErrAuth" /\ StoreUnchanged
        ELSE last'.err = "nil"

C1_OwnerKept ==
  \A z \in ZoneDomains :
    (OwnerOf(Store, z) # "" /\ OwnerOf(StoreNext, z) # "")
    => OwnerOf(StoreNext, z) = OwnerOf(Store, z)

\* C1: once a zone has an owner, AddDomainDelagate for another user fails
\* with ErrAuth and changes nothing in the store, AddDomainDelagate for the
\* owner succeeds, and no step takes the owner of a zone from one identity
\* straight to another.
C1_DelegateKeepsOwner == [][C1_Step /\ C1_OwnerKept]_vars

C1_Witness ==
  /\ last.op = "AddDomainDelagate"
  /\ last.err = "ErrAuth"
  /\ OwnerOf(Store, last.domain) \notin {"", last.user}

-----------------------------------------------------------------------------
(* C2 *)

C2_Step ==
  LET owner == OwnerOf(Store, last'.domain)
  IN (last'.op = "RemoveDomainDelagate" /\ last'.failed = "none" /\ owner # "")
     => IF last'.user # owner
        THEN last'.err = "ErrAuth" /\ StoreUnchanged
        ELSE last'.err = "nil" /\ getZoneOwner(StoreNext, last'.domain) = NoZoneOwner

\* C2: RemoveDomainDelagate by anyone but the owner of an owned zone fails
\* with ErrAuth and changes nothing; by the owner it succeeds and getZoneOwner
\* then returns an empty owner.
C2_RemoveByOwnerOnly == [][C2_Step]_vars

C2_Witness ==
  /\ last.op = "RemoveDomainDelagate"
  /\ last.err = "ErrAuth"
  /\ OwnerOf(Store, last.domain) \notin {"", last.user}

-----------------------------------------------------------------------------
(* C3 *)

\* C3: after a successful RemoveDomainDelagate of zone Z no record entry is
\* stored under Z, the __owner__ attestation included, and Z has no
\* ZoneOwner entry.
C3_RemoveClearsZone ==
  (last.op = "RemoveDomainDelagate" /\ last.err = "nil")
  => /\ \A name \in Names :
          /\ ~HasEntry(Store, last.domain, name)
          /\ getZoneRecords(Store, last.domain, name) = NoRecords
     /\ last.domain \notin DOMAIN zoneTab

-----------------------------------------------------------------------------
(* C4 *)

C4_Add ==
  LET d == last'.domain
  IN (last'.op = "AddSubdomain" /\ last'.failed = "none" /\ Managed(Store, ZoneOf(d)))
     => IF ~HasClaim(Store, d)
        THEN last'.err = "nil" /\ HasClaim(StoreNext, d) /\ managed'[d] = last'.user
        ELSE last'.err = "ErrSubdomainUsed" /\ StoreUnchanged

C4_Release ==
  LET d == last'.domain
  IN (/\ last'.op = "RemoveSubdomain"
      /\ last'.err = "nil"
      /\ Managed(Store, ZoneOf(d))
      /\ HasClaim(Store, d) /\ managed[d] = last'.user
      /\ ~IsEmpty(getZoneRecords(Store, ZoneOf(d), NameOf(d)))
      /\ IsEmpty(getZoneRecords(StoreNext, ZoneOf(d), NameOf(d))))
     => \A other \in Users \ {last'.user}, ips \in IPLists :
          LET r == AddSubdomain(StoreNext, other, d, ips, {})
          IN r.err = "nil" /\ r.s.managed[d] = other

\* C4: on a managed zone AddSubdomain on an unclaimed subdomain succeeds and
\* records the caller as claimant; while a claim exists AddSubdomain by
\* anyone fails with ErrSubdomainUsed and changes nothing; once the holder's
\* RemoveSubdomain has emptied the record set, AddSubdomain by another user
\* succeeds.
C4_ManagedClaim == [][C4_Add /\ C4_Release]_vars

C4_Witness ==
  /\ last.op = "AddSubdomain"
  /\ last.err = "ErrSubdomainUsed"
  /\ Managed(Store, ZoneOf(last.domain))
  /\ managed[last.domain] = last.user

-----------------------------------------------------------------------------
(* C5 *)

C5_Step ==
  LET d == last'.domain
      owner == OwnerOf(Store, ZoneOf(d))
  IN (last'.op = "AddSubdomain" /\ last'.failed = "none" /\ Delegated(Store, ZoneOf(d)))
     => IF last'.user # owner
        THEN last'.err = "ErrAuth" /\ StoreUnchanged
        ELSE last'.err = "nil"

\* C5: on a zone delegated to a tenant, AddSubdomain by anyone else fails
\* with ErrAuth and leaves records and claims unchanged; by the tenant it
\* succeeds, also when the subdomain already holds the tenant's records.
C5_DelegatedAdd == [][C5_Step]_vars

C5_Witness ==
  /\ last.op = "AddSubdomain"
  /\ last.err = "ErrAuth"
  /\ Delegated(Store, ZoneOf(last.domain))
  /\ ~IsEmpty(getZoneRecords(Store, ZoneOf(last.domain), NameOf(last.domain)))

-----------------------------------------------------------------------------
(* C6 *)

C6_Step ==
  LET d == last'.domain
      owner == OwnerOf(Store, ZoneOf(d))
  IN (last'.op = "RemoveSubdomain" /\ Delegated(Store, ZoneOf(d)))
     => /\ getZoneRecords(StoreNext, ZoneOf(d), NameOf(d))
             # getZoneRecords(Store, ZoneOf(d), NameOf(d))
           => last'.user = owner
        /\ last'.user = owner => last'.err # "ErrAuth"

\* C6: on a zone delegated to a tenant, RemoveSubdomain changes the record
\* set of a subdomain only when the caller is the tenant, and the tenant is
\* never rejected with ErrAuth.  (That every other caller gets ErrAuth, also
\* when there is nothing to remove, is the stronger half of the claim and is
\* not needed to refute it.)
C6_DelegatedRemove == [][C6_Step]_vars

-----------------------------------------------------------------------------
(* C7 *)

\* C7: for every address list and every subdomain with no record entry and
\* no claim, a successful AddSubdomain followed by RemoveSubdomain with the
\* same caller and list leaves no record entry and no claim entry, so that on
\* a managed zone another user's AddSubdomain is accepted.
C7_AddThenRemoveFrees ==
  \A user \in Users, d \in SubDomains, ips \in IPLists :
    LET added == AddSubdomain(Store, user, d, ips, {})
        removed == RemoveSubdomain(added.s, user, d, ips, {})
    IN (/\ ~HasEntry(Store, ZoneOf(d), NameOf(d))
        /\ ~HasClaim(Store, d)
        /\ added.err = "nil")
       => /\ removed.err = "nil"
          /\ ~HasEntry(removed.s, ZoneOf(d), NameOf(d))
          /\ ~HasClaim(removed.s, d)
          /\ Managed(Store, ZoneOf(d))
               => \A other \in Users \ {user} :
                    AddSubdomain(removed.s, other, d, ips, {}).err = "nil"

-----------------------------------------------------------------------------
(* C8 *)

C8_Step ==
  LET d == last'.domain
  IN (last'.op = "AddSubdomain" /\ last'.failed = "none" /\ OwnerOf(Store, ZoneOf(d)) = "")
     => /\ last'.err = "ErrNotManaged"
        /\ last'.zone = ZoneOf(d)
        /\ StoreUnchanged

\* C8: AddSubdomain on a domain whose zone has no owner fails with the
\* not-managed error naming the zone and writes nothing.
C8_NotManaged == [][C8_Step]_vars

C8_Witness ==
  /\ last.op = "AddSubdomain"
  /\ last.err = "ErrNotManaged"
  /\ last.zone = ZoneOf(last.domain)
  /\ OwnerOf(Store, last.zone) = ""

-----------------------------------------------------------------------------
(* C9 *)

C9_Step ==
  LET d == last'.domain
  IN (last'.op = "AddSubdomain" /\ last'.err = "nil" /\ Managed(Store, ZoneOf(d)))
     => IsEmpty(getZoneRecords(Store, ZoneOf(d), NameOf(d)))

\* C9: on a managed zone, whenever AddSubdomain succeeds the record set
\* stored for the subdomain just before the call was empty.
C9_NoCarryOver == [][C9_Step]_vars

-----------------------------------------------------------------------------
(* C10 *)

C10_Step ==
  (/\ last'.op = "AddSubdomain"
   /\ last'.failed \in {"getZoneRecords", "setZoneRecords"}
   /\ last'.rollback = "done")
  => /\ last'.err = "ErrStore"
     /\ managed' = managed
     /\ hashes' = hashes

\* C10: when AddSubdomain has written its claim, a later store step fails
\* and the compensating delete succeeds, the claim table and the record
\* store are as they were before the call.
C10_RollbackRestores == [][C10_Step]_vars

-----------------------------------------------------------------------------
(* C11 *)

\* the record entries of the store whose record set is empty
EmptyEntries(s) ==
  {<<z, n>> \in ZoneDomains \X Names :
     HasEntry(s, z, n) /\ IsEmpty(getZoneRecords(s, z, n))}

\* C11: after a completed AddSubdomain or RemoveSubdomain call, whatever its
\* address list, no record entry is stored whose record set is empty.
C11_NoEmptyEntry ==
  last.op \in {"AddSubdomain", "RemoveSubdomain"} => EmptyEntries(Store) = {}

-----------------------------------------------------------------------------
(* C12: the operations on malformed domains *)

\* the calls of this specification take a well-formed or a malformed domain,
\* at most one address, and a store on which every round trip works or every
\* round trip fails
MaxProbeIPs == 1
ProbeIPLists == {q \in IPLists : Len(q) <= MaxProbeIPs}
ProbeFails(fails) == {{}, UNION fails}

ProbeAddSubdomain ==
  \E user \in Users, domain \in SubDomains \cup BadDomains,
     ips \in ProbeIPLists, fail \in ProbeFails(AddSubdomainFails) :
    LET r == AddSubdomain(Store, user, domain, ips, fail)
    IN /\ Commit(r)
       /\ last' = Call("AddSubdomain", user, domain, r)

ProbeRemoveSubdomain ==
  \E user \in Users, domain \in SubDomains \cup BadDomains,
     ips \in ProbeIPLists, fail \in ProbeFails(RemoveSubdomainFails) :
    LET r == RemoveSubdomain(Store, user, domain, ips, fail)
    IN /\ Commit(r)
       /\ last' = Call("RemoveSubdomain", user, domain, r)

ProbeAddDomainDelagate ==
  \E id \in Identities, user \in Users, domain \in ZoneDomains \cup BadDomains,
     fail \in ProbeFails(AddDomainDelagateFails) :
    LET r == AddDomainDelagate(Store, id, user, domain, fail)
    IN /\ Commit(r)
       /\ last' = Call("AddDomainDelagate", user, domain, r)

ProbeRemoveDomainDelagate ==
  \E user \in Users, domain \in ZoneDomains \cup BadDomains,
     fail \in ProbeFails(RemoveDomainDelagateFails) :
    LET r == RemoveDomainDelagate(Store, user, domain, fail)
    IN /\ Commit(r)
       /\ last' = Call("RemoveDomainDelagate", user, domain, r)

NextInputs ==
  \/ ProbeAddSubdomain
  \/ ProbeRemoveSubdomain
  \/ ProbeAddDomainDelagate
  \/ ProbeRemoveDomainDelagate

SpecInputs == Init /\ [][NextInputs]_vars

\* empty, without a dot, ending in a dot, or with two dots in a row
Malformed(d) ==
  \/ Len(d) = 0
  \/ \A i \in 1..Len(d) : d[i] # Dot
  \/ d[Len(d)] = Dot
  \/ \E i \in 1..(Len(d) - 1) : d[i] = Dot /\ d[i + 1] = Dot

\* domain.com, a.domain.com, a.b.c.domain.com
PlainDomains ==
  {ZoneZC, SubD, <<"a", ".", "b", ".", "c", ".", "z", ".", "c">>}

C12_Step ==
  LET d == last'.domain
  IN /\ Malformed(d) =>
          /\ last'.err = "ErrValidation"
          /\ last'.failed = "none"
          /\ StoreUnchanged
     /\ d \in PlainDomains => last'.err # "ErrValidation"

\* C12: every operation called with a domain that is empty, has no dot, ends
\* in a dot or contains two dots in a row returns a validation error before
\* any store round trip and leaves the store unchanged; plain multi-label
\* names pass validation.
C12_MalformedRejected ==
  [][C12_Step /\ \A d \in PlainDomains : validateDomain(d)]_vars

C12_Witness ==
  /\ last.op = "RemoveDomainDelagate"
  /\ last.domain = <<"z", ".">>
  /\ last.err = "ErrValidation"
  /\ OwnerOf(Store, ZoneZC) # ""

-----------------------------------------------------------------------------
(* C13: splitDomain on domains of two labels and more *)

MaxLabels == 4
Labels == {<<"a">>, <<"b", "c">>, <<"x", "y", "z">>}
LabelSeqs == {ls \in SeqsUpTo(Labels, MaxLabels) : Len(ls) >= 2}

InitSplit ==
  /\ zoneTab = NoTable
  /\ managed = NoTable
  /\ hashes = NoTable
  /\ last = NoCall
  /\ procs = NoProcs
  /\ probe \in {[NoProbe EXCEPT !.labels = ls, !.domain = Join(ls, Dot)] :
                  ls \in LabelSeqs}

ApplySplitDomain ==
  /\ ~probe.done
  /\ LET r == splitDomain(probe.domain)
     IN probe' = [probe EXCEPT !.done = TRUE, !.name = r[1], !.zone = r[2]]
  /\ UNCHANGED <<zoneTab, managed, hashes, last, procs>>

SpecSplit == InitSplit /\ [][ApplySplitDomain]_vars

\* C13: for a domain of n >= 2 non-empty labels splitDomain returns an empty
\* name and the whole domain when n = 2, and the first label and the other
\* labels joined by dots when n >= 3, so that name, a dot and zone make up
\* the domain again when the name is not empty.
C13_SplitDomain ==
  probe.done =>
    LET n == Len(probe.labels)
    IN /\ n = 2 => probe.name = <<>> /\ probe.zone = probe.domain
       /\ n >= 3 =>
            /\ probe.name = probe.labels[1]
            /\ probe.zone = Join(Tail(probe.labels), Dot)
       /\ probe.name # <<>> => probe.name \o <<Dot>> \o probe.zone = probe.domain

C13_Witness ==
  /\ probe.done
  /\ Len(probe.labels) = MaxLabels
  /\ probe.name = <<"b", "c">>
  /\ probe.zone # probe.domain

-----------------------------------------------------------------------------
(* C14: two AddSubdomain calls in progress at once.  The manager holds no   *)
(* lock (Mgr has the pool and the identity only), so the round trips of two *)
(* calls interleave freely; each step below is one round trip of one call   *)
(* together with the local computation that follows it.                     *)

Procs == {"p1", "p2"}
Callers == {"u1", "u2"}

\* a call in progress: its arguments, its position, what it has read so far,
\* the error it returned, and the rank of its claim write among the claim
\* writes (0: has not written)
Proc(user, ips) ==
  [user |-> user, ips |-> ips, pc |-> "getZoneOwner", owner |-> NoZoneOwner,
   zr |-> NoRecords, err |-> "nil", wrote |-> 0]

\* the store New starts from
NewStore == [zone |-> NoTable, managed |-> NoTable, hashes |-> NoTable]

\* the zone z.c has no owner or is delegated, to the gateway or to a tenant,
\* and both calls are about to make their first round trip for d.z.c
InitConc ==
  /\ \E o \in {"", identity, "u1"} :
       LET s == IF o = "" THEN NewStore
                ELSE AddDomainDelagate(NewStore, "id", o, ZoneZC, {}).s
       IN zoneTab = s.zone /\ managed = s.managed /\ hashes = s.hashes
  /\ last = NoCall
  /\ procs \in [Procs -> {Proc(u, ips) : u \in Callers, ips \in IPLists}]
  /\ probe = NoProbe

Returned(p, err) ==
  /\ procs' = [procs EXCEPT ![p].pc = "done", ![p].err = err]
  /\ last' = Call("AddSubdomain", procs[p].user, SubD,
                  Ret(Store, err, "none",
                      IF err = "ErrNotManaged" THEN ZoneOf(SubD) ELSE NoZone))
  /\ UNCHANGED <<zoneTab, managed, hashes, probe>>

StepGetZoneOwner(p) ==
  /\ procs[p].pc = "getZoneOwner"
  /\ LET owner == getZoneOwner(Store, ZoneOf(SubD))
     IN IF NotManaged(owner) THEN Returned(p, "ErrNotManaged")
        ELSE IF IsManaged(owner)
          THEN /\ procs' = [procs EXCEPT ![p].pc = "getSubdomainOwner",
                                         ![p].owner = owner]
               /\ UNCHANGED <<zoneTab, managed, hashes, last, probe>>
        ELSE IF NotDelegate(owner, procs[p].user) THEN Returned(p, "ErrAuth")
        ELSE /\ procs' = [procs EXCEPT ![p].pc = "setSubdomainOwner",
                                       ![p].owner = owner]
             /\ UNCHANGED <<zoneTab, managed, hashes, last, probe>>

StepGetSubdomainOwner(p) ==
  /\ procs[p].pc = "getSubdomainOwner"
  /\ IF SubdomainUsed(getSubdomainOwner(Store, SubD), procs[p].user)
     THEN Returned(p, "ErrSubdomainUsed")
     ELSE /\ procs' = [procs EXCEPT ![p].pc = "setSubdomainOwner"]
          /\ UNCHANGED <<zoneTab, managed, hashes, last, probe>>

StepSetSubdomainOwner(p) ==
  /\ procs[p].pc = "setSubdomainOwner"
  /\ managed' = setSubdomainOwner(Store, SubD, procs[p].user).managed
  /\ procs' = [procs EXCEPT
       ![p].pc = "getZoneRecords",
       ![p].wrote = 1 + Cardinality({q \in Procs : procs[q].wrote > 0})]
  /\ UNCHANGED <<zoneTab, hashes, last, probe>>

StepGetZoneRecords(p) ==
  /\ procs[p].pc = "getZoneRecords"
  /\ procs' = [procs EXCEPT
       ![p].pc = "setZoneRecords",
       ![p].zr = AddAll(getZoneRecords(Store, ZoneOf(SubD), NameOf(SubD)),
                        procs[p].ips)]
  /\ UNCHANGED <<zoneTab, managed, hashes, last, probe>>

StepSetZoneRecords(p) ==
  /\ procs[p].pc = "setZoneRecords"
  /\ hashes' = setZoneRecords(Store, ZoneOf(SubD), NameOf(SubD), procs[p].zr).hashes
  /\ procs' = [procs EXCEPT ![p].pc = "done"]
  /\ last' = Call("AddSubdomain", procs[p].user, SubD, Ret(Store, "nil", "none", NoZone))
  /\ UNCHANGED <<zoneTab, managed, probe>>

NextConc ==
  \E p \in Procs :
    \/ StepGetZoneOwner(p)
    \/ StepGetSubdomainOwner(p)
    \/ StepSetSubdomainOwner(p)
    \/ StepGetZoneRecords(p)
    \/ StepSetZoneRecords(p)

SpecConc == InitConc /\ [][NextConc]_vars

\* the call returned nil
Succeeded(p) == procs[p].pc = "done" /\ procs[p].err = "nil"

\* both calls are by different users on the managed zone and both returned
\* nil, so both found the subdomain unclaimed
BothSucceeded ==
  /\ DOMAIN procs = Procs
  /\ Managed(Store, ZoneOf(SubD))
  /\ procs["p1"].user # procs["p2"].user
  /\ \A p \in Procs : Succeeded(p)

\* the stored record set of d.z.c holds the record of the address ip
Holds(ip) ==
  LET r == recordFromIP(ip)
      recs == getZoneRecords(Store, ZoneOf(SubD), NameOf(SubD))
  IN r.type \in DOMAIN recs /\ InSeq(recs[r.type], r)

\* C14: when two AddSubdomain calls by different users on the same unclaimed
\* subdomain of a managed zone have both passed the unclaimed check and both
\* returned success, the claim names the caller whose claim write came last
\* (and there is such an interleaving, in which moreover the stored record
\* set is not restricted to that caller's addresses).
C14_LastClaimWriter ==
  BothSucceeded =>
    \E p \in Procs :
      /\ procs[p].wrote = Cardinality(Procs)
      /\ getSubdomainOwner(Store, SubD) = procs[p].user

C14_Witness ==
  /\ BothSucceeded
  /\ \E p \in Procs, q \in Procs :
       /\ procs[p].wrote = Cardinality(Procs)
       /\ getSubdomainOwner(Store, SubD) = procs[p].user
       /\ \E i \in 1..Len(procs[q].ips) :
            /\ ~InSeq(procs[p].ips, procs[q].ips[i])
            /\ Holds(procs[q].ips[i])

-----------------------------------------------------------------------------
(* C15 *)

\* an AddSubdomain call has just completed on a zone delegated to a tenant
DelegatedAddStep ==
  last'.op = "AddSubdomain" /\ Delegated(Store, ZoneOf(last'.domain))

C15_ClaimNotConsulted ==
  \A d \in SubDomains :
    Delegated(Store, ZoneOf(d)) =>
      \A u \in Users, ips \in IPLists :
        LET a == AddSubdomain(Store, u, d, ips, {})
            b == AddSubdomain([Store EXCEPT !.managed = NoTable], u, d, ips, {})
        IN a.err = b.err /\ a.s.hashes = b.s.hashes

C15_Step ==
  LET d == last'.domain
  IN DelegatedAddStep =>
       /\ last'.err = "ErrAuth" => managed' = managed
       /\ last'.err = "nil" => managed' = Put(managed, d, last'.user)

-----------------------------------------------------------------------------
(* C16 *)

C16_Step ==
  LET d == last'.domain
  IN (/\ last'.op = "RemoveSubdomain"
      /\ last'.failed = "none"
      /\ OwnerOf(Store, ZoneOf(d)) = "")
     => /\ last'.err = "nil"
        /\ managed' = Drop(managed, d)
        /\ hashes' = hashes
        /\ zoneTab' = zoneTab

\* C16: RemoveSubdomain on a domain whose zone has no owner returns success
\* for any user, deletes the claim entry of the domain if there is one, and
\* leaves every record entry and the zone-owner table unchanged.
C16_OwnerlessRemove == [][C16_Step]_vars

\* the call was made by a user who is not the claimant it released; the
\* records of the subdomain are still stored
C16_Witness ==
  /\ last.op = "RemoveSubdomain"
  /\ last.err = "nil"
  /\ OwnerOf(Store, ZoneOf(last.domain)) = ""
  /\ ~HasClaim(Store, last.domain)
  /\ HasEntry(Store, ZoneOf(last.domain), NameOf(last.domain))

-----------------------------------------------------------------------------
(* C17 *)

C17_Step == last'.op = "RemoveDomainDelagate" => managed' = managed

\* once the zone just removed is delegated to the gateway again, AddSubdomain
\* on a subdomain whose claim survived is refused for every user
C17_ClaimsBlock ==
  (last.op = "RemoveDomainDelagate" /\ last.err = "nil") =>
    \A d \in SubDomains :
      (ZoneOf(d) = last.domain /\ HasClaim(Store, d)) =>
        LET r == AddDomainDelagate(Store, "id", identity, last.domain, {})
        IN /\ r.err = "nil"
           /\ \A u \in Users, ips \in IPLists :
                AddSubdomain(r.s, u, d, ips, {}).err = "ErrSubdomainUsed"

\* C17: RemoveDomainDelagate leaves the claim table unchanged: claims on
\* subdomains of the removed zone survive, so once the zone is delegated to
\* the gateway identity again AddSubdomain on such a subdomain still fails
\* with ErrSubdomainUsed until the claim is released.
C17_ClaimsSurvive == []C17_ClaimsBlock /\ [][C17_Step]_vars

C17_Witness ==
  /\ last.op = "RemoveDomainDelagate"
  /\ last.err = "nil"
  /\ OwnerOf(Store, last.domain) = ""
  /\ \E d \in SubDomains : ZoneOf(d) = last.domain /\ HasClaim(Store, d)

-----------------------------------------------------------------------------
(* C18 *)

\* the identities the delegation is tried with, one of them never stored
TriedIdentities == Identities \cup {"id2"}

\* the record set holding the one TXT record of the owner
OneOwnerRecord(id, user) ==
  [t \in {"TXT"} |->
     <<[type |-> "TXT", Text |-> [identity |-> id, owner |-> user], TTL |-> OwnerTTL]>>]

\* C18: AddDomainDelagate is idempotent for the same arguments: called twice
\* in a row it succeeds both times and leaves the store as one call does, with
\* the zone owned by the user and the __owner__ entry holding exactly one TXT
\* record of the identity and the owner, whatever the entry held before.
C18_DelegateIdempotent ==
  \A id \in TriedIdentities, user \in Users, Z \in ZoneDomains :
    LET once == AddDomainDelagate(Store, id, user, Z, {})
        twice == AddDomainDelagate(once.s, id, user, Z, {})
    IN once.err = "nil" =>
         /\ twice.err = "nil"
         /\ twice.s = once.s
         /\ OwnerOf(once.s, Z) = user
         /\ getZoneRecords(once.s, Z, OwnerName) = OneOwnerRecord(id, user)

\* a delegation has just succeeded on a zone that was delegated before (a
\* subdomain entry is stored in it), so it overwrote an __owner__ entry
C18_Witness ==
  /\ last.op = "AddDomainDelagate"
  /\ last.err = "nil"
  /\ OwnerOf(Store, last.domain) = last.user
  /\ getZoneRecords(Store, last.domain, OwnerName) = OneOwnerRecord("id", last.user)
  /\ \E d \in SubDomains :
       ZoneOf(d) = last.domain /\ HasEntry(Store, ZoneOf(d), NameOf(d))

-----------------------------------------------------------------------------
(* C19 *)

\* the value is the empty string or the empty object "{}"
EmptyValue(value) == value = <<>>

\* the field is still in the hash after the step
Kept(k, f) == k \in DOMAIN hashes' /\ f \in DOMAIN hashes'[k]

\* the (key, field) pairs of the record store whose value is empty
EmptyFields(h) == {<<k, f>> \in (DOMAIN h) \X Names : f \in DOMAIN h[k] /\ EmptyValue(h[k][f])}

C19_Step ==
  last'.op = "Cleanup" =>
    /\ zoneTab' = zoneTab
    /\ managed' = managed
    /\ \A k \in DOMAIN hashes' :
         k \in DOMAIN hashes /\ DOMAIN hashes'[k] \subseteq DOMAIN hashes[k]
    /\ \A k \in DOMAIN hashes : \A f \in DOMAIN hashes[k] :
         /\ Kept(k, f) => hashes'[k][f] = hashes[k][f]
         /\ ~EmptyValue(hashes[k][f]) => Kept(k, f)
         /\ (/\ last'.failed = "none"
             /\ k[Len(k)] = Dot
             /\ EmptyValue(hashes[k][f])) => ~Kept(k, f)

\* C19: Cleanup deletes exactly the (zone, name) entries of hash-typed keys
\* ending in '.' whose stored value is the empty string or the empty object,
\* and leaves every other record entry, the zone-owner table and the claim
\* table unchanged: the claim of a subdomain whose empty entry it deletes is
\* not released.
C19_CleanupSweeps == [][C19_Step]_vars

\* after a sweep the claim of the subdomain is still held while its entry
\* is gone
C19_Witness ==
  /\ last.op = "Cleanup"
  /\ last.err = "nil"
  /\ last.failed = "none"
  /\ HasClaim(Store, SubD)
  /\ ~HasEntry(Store, ZoneOf(SubD), NameOf(SubD))
  /\ HasEntry(Store, ZoneOf(SubD), OwnerName)

-----------------------------------------------------------------------------
(* C20 *)

\* the round trips of the sweep that concern one key, one zone or one field
SingleKeySteps == {"TYPE", "HKEYS", "HGET", "HDEL"}

C20_Step ==
  (last'.op = "Cleanup" /\ last'.failed \in SingleKeySteps) =>
    /\ last'.err = "nil"
    /\ \E k \in DOMAIN hashes :
         \A e \in EmptyFields(hashes') : e[1] = k

\* C20: a store failure that concerns a single key or zone during Cleanup
\* (the type lookup of one key, listing one zone's fields, reading or deleting
\* one field) never makes Cleanup return an error or stop: every other zone
\* and key is still swept and Cleanup returns success.
C20_SweepNeverAborts == [][C20_Step]_vars

-----------------------------------------------------------------------------
(* C21 *)

\* the claim of d is gone after the step or names somebody else
ClaimLost(d) ==
  /\ HasClaim(Store, d)
  /\ d \notin DOMAIN managed' \/ managed'[d] # managed[d]

C21_Step == \A d \in SubDomains : ClaimLost(d) => last'.user = managed[d]

\* C21: a claim entry held by an identity for a subdomain is deleted or
\* replaced only by an operation invoked with that identity as user: no call
\* by another identity (RemoveSubdomain, AddSubdomain, its rollback,
\* RemoveDomainDelagate) removes or overwrites it.
C21_ClaimChangedByHolderOnly == [][C21_Step]_vars

-----------------------------------------------------------------------------
(* C22 *)

\* the address list names every address stored for the subdomain
Covers(ips, recs) ==
  \A t \in DOMAIN recs : \A i \in 1..Len(recs[t]) :
    \E j \in 1..Len(ips) : recordFromIP(ips[j]) = recs[t][i]

\* C22: on a managed zone the holder of a claim can always release it: in
\* every reachable state where an identity holds the claim of d,
\* RemoveSubdomain by that identity with an address list covering every
\* address stored for d ends with the claim entry of d absent, also when the
\* stored record set of d is already empty.
C22_HolderCanRelease ==
  \A d \in SubDomains :
    (Managed(Store, ZoneOf(d)) /\ HasClaim(Store, d)) =>
      \A ips \in IPLists :
        Covers(ips, getZoneRecords(Store, ZoneOf(d), NameOf(d))) =>
          ~HasClaim(RemoveSubdomain(Store, getSubdomainOwner(Store, d), d, ips, {}).s, d)

-----------------------------------------------------------------------------
(* C23 *)

\* both calls are by the owner of the delegated zone and both returned nil
BothByOwner ==
  /\ DOMAIN procs = Procs
  /\ Delegated(Store, ZoneOf(SubD))
  /\ \A p \in Procs : procs[p].user = OwnerOf(Store, ZoneOf(SubD)) /\ Succeeded(p)

\* the stored record set of d.z.c holds the records of the whole list
HoldsAll(ips) == \A i \in 1..Len(ips) : Holds(ips[i])

\* C23: when two AddSubdomain calls by the zone owner on the same subdomain
\* of a delegated zone run concurrently with address lists A and B and both
\* return success, the stored record set afterwards contains the records of
\* both A and B.
C23_NoLostUpdate == BothByOwner => \A p \in Procs : HoldsAll(procs[p].ips)

\* C23 (amended): ... the stored record set afterwards contains the records
\* of at least one of A and B (the list of the call that wrote the entry
\* last); the records of the other list may be lost.
C23_OneListStored == BothByOwner => \E p \in Procs : HoldsAll(procs[p].ips)

\* both succeeded and an address of one of the lists is not stored
C23_Witness ==
  /\ BothByOwner
  /\ \E p \in Procs : ~HoldsAll(procs[p].ips)

-----------------------------------------------------------------------------
(* C24: two AddDomainDelagate calls in progress at once, one round trip of  *)
(* one call per step.                                                       *)

\* a delegation in progress: its user, its position, the owner it has read,
\* the error it returned, and the ranks of its owner write and of its
\* attestation write among the writes of their kind (0: has not written)
Delegation(user) ==
  [user |-> user, pc |-> "getZoneOwner", owner |-> NoZoneOwner, err |-> "nil",
   wroteOwner |-> 0, wroteText |-> 0]

\* the zone z.c is not delegated and both calls are about to read its owner
InitDelegate ==
  /\ zoneTab = NewStore.zone
  /\ managed = NewStore.managed
  /\ hashes = NewStore.hashes
  /\ last = NoCall
  /\ procs \in [Procs -> {Delegation(u) : u \in Users}]
  /\ probe = NoProbe

\* the owner writes and the attestation writes made so far
OwnerWrites == Cardinality({q \in Procs : procs[q].wroteOwner > 0})
TextWrites == Cardinality({q \in Procs : procs[q].wroteText > 0})

StepDelegateGetZoneOwner(p) ==
  /\ procs[p].pc = "getZoneOwner"
  /\ LET owner == getZoneOwner(Store, ZoneZC)
     IN IF DelegateDenied(owner, procs[p].user)
        THEN /\ procs' = [procs EXCEPT ![p].pc = "done", ![p].err = "ErrAuth"]
             /\ last' = Call("AddDomainDelagate", procs[p].user, ZoneZC,
                             Ret(Store, "ErrAuth", "none", ZoneZC))
        ELSE /\ procs' = [procs EXCEPT ![p].pc = "setZoneOwner", ![p].owner = owner]
             /\ UNCHANGED last
  /\ UNCHANGED <<zoneTab, managed, hashes, probe>>

StepDelegateSetZoneOwner(p) ==
  /\ procs[p].pc = "setZoneOwner"
  /\ zoneTab' = setZoneOwner(Store, ZoneZC,
                             [procs[p].owner EXCEPT !.Owner = procs[p].user]).zone
  /\ procs' = [procs EXCEPT ![p].pc = "setZoneOwnerTXTRecord",
                            ![p].wroteOwner = 1 + OwnerWrites]
  /\ UNCHANGED <<managed, hashes, last, probe>>

StepDelegateSetZoneOwnerTXTRecord(p) ==
  /\ procs[p].pc = "setZoneOwnerTXTRecord"
  /\ \E id \in Identities :
       hashes' = setZoneOwnerTXTRecord(Store, ZoneZC, id, procs[p].user).hashes
  /\ procs' = [procs EXCEPT ![p].pc = "done",
                            ![p].wroteText = 1 + TextWrites]
  /\ last' = Call("AddDomainDelagate", procs[p].user, ZoneZC,
                  Ret(Store, "nil", "none", NoZone))
  /\ UNCHANGED <<zoneTab, managed, probe>>

NextDelegate ==
  \E p \in Procs :
    \/ StepDelegateGetZoneOwner(p)
    \/ StepDelegateSetZoneOwner(p)
    \/ StepDelegateSetZoneOwnerTXTRecord(p)

SpecDelegate == InitDelegate /\ [][NextDelegate]_vars

\* both calls are delegations by different users and both have returned
BothReturned ==
  /\ DOMAIN procs = Procs
  /\ \A p \in Procs : procs[p].pc = "done" /\ "wroteText" \in DOMAIN procs[p]
  /\ procs["p1"].user # procs["p2"].user

\* the owner the __owner__ attestation of the zone names
AttestedOwner(s, zone) == getZoneRecords(s, zone, OwnerName)["TXT"][1].Text.owner

\* C24: when two AddDomainDelagate calls for the same undelegated zone with
\* different users run concurrently, at most one of them returns success, and
\* once both have returned the owner named in the zone's __owner__
\* attestation equals the stored ZoneOwner.Owner.
C24_OneDelegateWins ==
  BothReturned =>
    /\ \E p \in Procs : procs[p].err # "nil"
    /\ AttestedOwner(Store, ZoneZC) = OwnerOf(Store, ZoneZC)

\* C24 (amended): ... at least one of them returns success and both may; once
\* both have returned, the stored ZoneOwner.Owner is the user of the call
\* whose owner write came last and the __owner__ attestation names the user
\* of the call whose attestation write came last, so that the two agree when
\* only one call succeeded and can differ when both did.
C24_LastWriterPerKey ==
  BothReturned =>
    LET won == {p \in Procs : procs[p].err = "nil"}
    IN /\ won # {}
       /\ \E p \in won :
            /\ procs[p].wroteOwner = Cardinality(won)
            /\ OwnerOf(Store, ZoneZC) = procs[p].user
       /\ \E p \in won :
            /\ procs[p].wroteText = Cardinality(won)
            /\ AttestedOwner(Store, ZoneZC) = procs[p].user
       /\ Cardinality(won) = 1 => AttestedOwner(Store, ZoneZC) = OwnerOf(Store, ZoneZC)

\* both delegations succeeded and the attestation names the other user
C24_Witness ==
  /\ BothReturned
  /\ \A p \in Procs : procs[p].err = "nil"
  /\ AttestedOwner(Store, ZoneZC) # OwnerOf(Store, ZoneZC)

====
